---------------------------- MODULE Spec2Model ----------------------------
(***************************************************************************)
(* The extent-tree engine of lib/ext2fs/extent.c: one handle on one inode  *)
(* of one filesystem.  A node buffer is a header plus its record slots; a  *)
(* record slot is the 12 raw bytes of the on-disk record, kept as its four *)
(* little-endian fields.  A 48-bit physical block number is kept as the    *)
(* pair (hi, lo) of its upper 16 and lower 32 bits, so that shifts and     *)
(* masks by 32 are exact.                                                  *)
(***************************************************************************)
EXTENDS Integers, Sequences, FiniteSets, TLC

VARIABLES fs, inodes, blocks, h, last, prev, wlog, walk, snap, nmut, heap

vars ==
  <<fs, inodes, blocks, h, last, prev, wlog, walk, snap, nmut, heap>>

(***************************************************************************)
(* Bounds of the model.                                                    *)
(***************************************************************************)
\* record slots of a filesystem block (block size 16 + 12 * BlkSlots bytes)
BlkSlots == 3
\* mutations (replace, insert, delete) performed in one behaviour
MaxMut == 2

(***************************************************************************)
(* Program constants.                                                      *)
(***************************************************************************)
EXT3_EXT_MAGIC == 62218
EXT_INIT_MAX_LEN == 32768
HdrSize == 12
RecSize == 12
IBlockSize == 60
blocksize == HdrSize + RecSize * BlkSlots + 4
NULLP == 0 - 100

(***************************************************************************)
(* Record slots.  The leaf view names the raw fields; the index view is    *)
(* the same 12 bytes read as ei_block, ei_leaf, ei_leaf_hi, ei_unused.     *)
(***************************************************************************)
Slot(b, len, shi, start) ==
  [ee_block |-> b, ee_len |-> len, ee_start_hi |-> shi, ee_start |-> start]

ZeroSlot == Slot(0, 0, 0, 0)

ei_block(s) == s.ee_block
ei_leaf(s) == s.ee_len + 65536 * s.ee_start_hi
ei_leaf_hi(s) == s.ee_start % 65536
ei_unused(s) == s.ee_start \div 65536

IdxSlot(b, leaf, leaf_hi, unused) ==
  Slot(b, leaf % 65536, leaf \div 65536, leaf_hi + 65536 * unused)

PBlk(hi, lo) == [hi |-> hi, lo |-> lo]

(***************************************************************************)
(* Node buffers.                                                           *)
(***************************************************************************)
Buf(magic, entries, max, depth, recs) ==
  [eh_magic |-> magic, eh_entries |-> entries, eh_max |-> max,
   eh_depth |-> depth, eh_generation |-> 0, recs |-> recs]

NSlots(size) == (size - HdrSize) \div RecSize

ZeroBuf(size) ==
  Buf(0, 0, 0, 0, [i \in 1..NSlots(size) |-> ZeroSlot])

NoBuf == Buf(0, 0, 0, 0, <<>>)

\* the header bytes read as a record (a record pointer one before the first)
HdrAsSlot(b) ==
  Slot(b.eh_magic + 65536 * b.eh_entries, b.eh_max, b.eh_depth,
       b.eh_generation)

InBuf(b, i) == i >= 0 - 1 /\ i < Len(b.recs)

RdSlot(b, i) == IF i = 0 - 1 THEN HdrAsSlot(b) ELSE b.recs[i + 1]

WrSlot(b, i, s) ==
  IF i = 0 - 1
  THEN [b EXCEPT !.eh_magic = s.ee_block % 65536,
                 !.eh_entries = s.ee_block \div 65536,
                 !.eh_max = s.ee_len,
                 !.eh_depth = s.ee_start_hi,
                 !.eh_generation = s.ee_start]
  ELSE [b EXCEPT !.recs[i + 1] = s]

(***************************************************************************)
(* ext2fs_extent_header_verify                                             *)
(***************************************************************************)
ext2fs_extent_header_verify(eh, size) ==
  LET eh_max == (size - HdrSize) \div RecSize
  IN IF eh.eh_magic # EXT3_EXT_MAGIC THEN "EXTENT_HEADER_BAD"
     ELSE IF eh.eh_entries > eh.eh_max THEN "EXTENT_HEADER_BAD"
     ELSE IF eh.eh_max > eh_max \/ eh.eh_max < eh_max - 2
          THEN "EXTENT_HEADER_BAD"
     ELSE "OK"


(***************************************************************************)
(* The handle.  path is indexed 1..max_depth+1 (frame of level l is        *)
(* path[l+1]); frame 0 has no buffer of its own, its node is the i_block   *)
(* region of the handle's inode copy.  curr is the 0-based slot index of   *)
(* the current record, NULLP for a null pointer.                           *)
(***************************************************************************)
Frame(buf, entries, max_entries, left, visit_num, end_blk, curr) ==
  [buf |-> buf, entries |-> entries, max_entries |-> max_entries,
   left |-> left, visit_num |-> visit_num, end_blk |-> end_blk,
   curr |-> curr]

\* a frame as memset(.., 0, ..) leaves it
ZeroFrame == Frame(NoBuf, 0, 0, 0, 0, 0, NULLP)

NoInode == [EXT4_EXTENTS_FL |-> FALSE, i_size |-> 0, i_block |-> NoBuf]

NoHandle ==
  [st |-> "none", ino |-> 0, level |-> 0, max_depth |-> 0,
   inode |-> NoInode, path |-> <<>>]

PathOf(hd, l) == hd.path[l + 1]

\* path[l].buf: frame 0 aliases inode->i_block
FrameBuf(hd, l) == IF l = 0 THEN hd.inode.i_block ELSE hd.path[l + 1].buf

SetFrameBuf(hd, l, b) ==
  IF l = 0 THEN [hd EXCEPT !.inode.i_block = b]
           ELSE [hd EXCEPT !.path[l + 1].buf = b]

(***************************************************************************)
(* Extents as returned to and passed by callers.                           *)
(***************************************************************************)
Extent(lblk, pblk, len, flags) ==
  [e_lblk |-> lblk, e_pblk |-> pblk, e_len |-> len, e_flags |-> flags]

NoExtent == Extent(0 - 1, PBlk(0, 0), 0, {})

\* the outcome of one call: the handle after it, the error code, the extent
\* written to the caller, and what is left of the call's environment
Res(hd, ret, ext, env) == [h |-> hd, ret |-> ret, ext |-> ext, env |-> env]

NextOps == {"NEXT", "NEXT_LEAF"}
PrevOps == {"PREV", "PREV_LEAF"}

(***************************************************************************)
(* ext2fs_extent_get, lines 264-332: the step NEXT, PREV and LAST_LEAF     *)
(* choose at the retry label.  ret is "OK" when a step was chosen.         *)
(***************************************************************************)
\* a choice that counts the visit before it looks for a step, and never
\* descends
SelectOpEager(hd, orig_op) ==
  LET path == PathOf(hd, hd.level)
      bump == [hd EXCEPT !.path[hd.level + 1].visit_num = path.visit_num + 1]
  IN IF orig_op \in NextOps THEN
       IF path.left > 0
         THEN [h |-> bump, op |-> "NEXT_SIB", ret |-> "OK"]
       ELSE IF hd.level > 0
         THEN [h |-> bump, op |-> "UP", ret |-> "OK"]
       ELSE [h |-> bump, op |-> orig_op, ret |-> "EXTENT_NO_NEXT"]
     ELSE [h |-> hd, op |-> orig_op, ret |-> "OK"]

\* a choice whose PREV (not PREV_LEAF) descends on the first visit, as NEXT
\* does
SelectOpMirror(hd, orig_op) ==
  LET path == PathOf(hd, hd.level)
      interior == hd.level < hd.max_depth
      bump == [hd EXCEPT !.path[hd.level + 1].visit_num = path.visit_num + 1]
  IN IF orig_op \in NextOps THEN
       IF interior /\ path.visit_num = 0
         THEN [h |-> bump, op |-> "DOWN", ret |-> "OK"]
       ELSE IF path.left > 0
         THEN [h |-> hd, op |-> "NEXT_SIB", ret |-> "OK"]
       ELSE IF hd.level > 0
         THEN [h |-> hd, op |-> "UP", ret |-> "OK"]
       ELSE [h |-> hd, op |-> orig_op, ret |-> "EXTENT_NO_NEXT"]
     ELSE IF orig_op \in PrevOps THEN
       IF interior /\ orig_op = "PREV" /\ path.visit_num = 0
         THEN [h |-> bump, op |-> "DOWN_AND_LAST", ret |-> "OK"]
       ELSE IF interior /\ orig_op # "PREV" /\ path.visit_num > 0
         THEN [h |-> hd, op |-> "DOWN_AND_LAST", ret |-> "OK"]
       ELSE IF path.left < path.entries - 1
         THEN [h |-> hd, op |-> "PREV_SIB", ret |-> "OK"]
       ELSE IF hd.level > 0
         THEN [h |-> hd, op |-> "UP", ret |-> "OK"]
       ELSE [h |-> hd, op |-> orig_op, ret |-> "EXTENT_NO_PREV"]
     ELSE IF orig_op = "LAST_LEAF" THEN
       IF interior /\ path.left = 0
         THEN [h |-> hd, op |-> "DOWN", ret |-> "OK"]
         ELSE [h |-> hd, op |-> "LAST_SIB", ret |-> "OK"]
     ELSE [h |-> hd, op |-> orig_op, ret |-> "OK"]

SelectOp(hd, orig_op) ==
  LET path == PathOf(hd, hd.level)
      interior == hd.level < hd.max_depth
      bump == [hd EXCEPT !.path[hd.level + 1].visit_num = path.visit_num + 1]
  IN IF orig_op \in NextOps THEN
       IF interior /\ path.visit_num = 0
         THEN [h |-> bump, op |-> "DOWN", ret |-> "OK"]
       ELSE IF path.left > 0
         THEN [h |-> hd, op |-> "NEXT_SIB", ret |-> "OK"]
       ELSE IF hd.level > 0
         THEN [h |-> hd, op |-> "UP", ret |-> "OK"]
       ELSE [h |-> hd, op |-> orig_op, ret |-> "EXTENT_NO_NEXT"]
     ELSE IF orig_op \in PrevOps THEN
       IF interior /\ path.visit_num > 0
         THEN [h |-> hd, op |-> "DOWN_AND_LAST", ret |-> "OK"]
       ELSE IF path.left < path.entries - 1
         THEN [h |-> hd, op |-> "PREV_SIB", ret |-> "OK"]
       ELSE IF hd.level > 0
         THEN [h |-> hd, op |-> "UP", ret |-> "OK"]
       ELSE [h |-> hd, op |-> orig_op, ret |-> "EXTENT_NO_PREV"]
     ELSE IF orig_op = "LAST_LEAF" THEN
       IF interior /\ path.left = 0
         THEN [h |-> hd, op |-> "DOWN", ret |-> "OK"]
         ELSE [h |-> hd, op |-> "LAST_SIB", ret |-> "OK"]
     ELSE [h |-> hd, op |-> orig_op, ret |-> "OK"]

(***************************************************************************)
(* The block I/O channel.  A block address is the pair (hi, lo); a read    *)
(* fails when the call's read budget env.rd is exhausted or the block lies *)
(* outside the device (env.rd < 0: no read of this call fails); env.mem    *)
(* says that the call's memory allocation fails.                           *)
(***************************************************************************)
Env(rd, mem) == [rd |-> rd, mem |-> mem]

ReadFails(blk, env) == env.rd = 0 \/ blk \notin DOMAIN blocks

ReadLeft(env) == IF env.rd > 0 THEN [env EXCEPT !.rd = env.rd - 1] ELSE env

\* blk_t blk = ei_leaf + ((__u64) ei_leaf_hi << 32): a 32-bit variable keeps
\* the low word only
DownBlk(ix) == PBlk(0, ei_leaf(ix))

\* blk64_t blk of update_path, and e_pblk of an index record
IndexPBlk(ix) == PBlk(ei_leaf_hi(ix), ei_leaf(ix))

(***************************************************************************)
(* The switch of ext2fs_extent_get, lines 334-449.  The result carries the *)
(* handle after the step, the error ("OK" when the step went through) and  *)
(* ix, the record pointer the decoding reads.                              *)
(***************************************************************************)
Step(hd, ret, ix, env) == [h |-> hd, ret |-> ret, ix |-> ix, env |-> env]

\* NEXT_SIB that forgets path->left--
OpNextSibKeepLeft(hd, env) ==
  LET l == hd.level
      path == PathOf(hd, l)
      ix == IF path.curr # NULLP THEN path.curr + 1 ELSE 0
  IN IF path.left <= 0 THEN Step(hd, "EXTENT_NO_NEXT", NULLP, env)
     ELSE Step([hd EXCEPT !.path[l + 1].curr = ix,
                          !.path[l + 1].visit_num = 0], "OK", ix, env)

\* case EXT2_EXTENT_NEXT_SIB, entered also by falling through from ROOT and
\* FIRST_SIB
OpNextSib(hd, env) ==
  LET l == hd.level
      path == PathOf(hd, l)
      ix == IF path.curr # NULLP THEN path.curr + 1 ELSE 0
  IN IF path.left <= 0 THEN Step(hd, "EXTENT_NO_NEXT", NULLP, env)
     ELSE Step([hd EXCEPT !.path[l + 1].left = path.left - 1,
                          !.path[l + 1].curr = ix,
                          !.path[l + 1].visit_num = 0], "OK", ix, env)

OpFirstSib(hd, env) ==
  LET l == hd.level
      path == PathOf(hd, l)
  IN OpNextSib([hd EXCEPT !.path[l + 1].left = path.entries,
                          !.path[l + 1].curr = NULLP], env)

\* ROOT that forgets handle->level = 0
OpRootKeepLevel(hd, env) == OpFirstSib(hd, env)

OpRoot(hd, env) == OpFirstSib([hd EXCEPT !.level = 0], env)

\* PREV_SIB that forgets path->left++
OpPrevSibKeepLeft(hd, env) ==
  LET l == hd.level
      path == PathOf(hd, l)
  IN IF path.curr = NULLP \/ path.left + 1 >= path.entries
     THEN Step(hd, "EXTENT_NO_PREV", NULLP, env)
     ELSE Step([hd EXCEPT !.path[l + 1].curr = path.curr - 1,
                          !.path[l + 1].visit_num =
                             IF l < hd.max_depth THEN 1 ELSE path.visit_num],
               "OK", path.curr - 1, env)

OpPrevSib(hd, env) ==
  LET l == hd.level
      path == PathOf(hd, l)
  IN IF path.curr = NULLP \/ path.left + 1 >= path.entries
     THEN Step(hd, "EXTENT_NO_PREV", NULLP, env)
     ELSE Step([hd EXCEPT !.path[l + 1].curr = path.curr - 1,
                          !.path[l + 1].left = path.left + 1,
                          !.path[l + 1].visit_num =
                             IF l < hd.max_depth THEN 1 ELSE path.visit_num],
               "OK", path.curr - 1, env)

\* EXT_LAST_EXTENT(eh) is the first record plus eh->eh_entries - 1
OpLastSib(hd, env) ==
  LET l == hd.level
      eh == FrameBuf(hd, l)
      ix == eh.eh_entries - 1
  IN Step([hd EXCEPT !.path[l + 1].curr = ix,
                     !.path[l + 1].left = 0,
                     !.path[l + 1].visit_num = 0], "OK", ix, env)

OpUp(hd, orig_op, env) ==
  LET l == hd.level
  IN IF l <= 0 THEN Step(hd, "EXTENT_NO_UP", NULLP, env)
     ELSE LET up == [hd EXCEPT !.level = l - 1]
              vis == IF orig_op \in PrevOps
                     THEN [up EXCEPT !.path[l].visit_num = 0] ELSE up
          IN Step(vis, "OK", PathOf(hd, l - 1).curr, env)

\* case EXT2_EXTENT_DOWN / EXT2_EXTENT_DOWN_AND_LAST, lines 386-446.
\* A pointer outside the node's memory is dereferenced: "CRASH".
OpDown(hd, op, env) ==
  LET l == hd.level
      path == PathOf(hd, l)
      newpath == PathOf(hd, l + 1)
      pbuf == FrameBuf(hd, l)
  IN IF path.curr = NULLP \/ l >= hd.max_depth
       THEN Step(hd, "EXTENT_NO_DOWN", NULLP, env)
     ELSE IF newpath.buf = NoBuf /\ env.mem
       THEN Step(hd, "ENOMEM", NULLP, env)
     ELSE IF ~InBuf(pbuf, path.curr)
       THEN Step(hd, "CRASH", NULLP, env)
     ELSE
       LET ix == RdSlot(pbuf, path.curr)
           blk == DownBlk(ix)
           got == IF newpath.buf = NoBuf
                  THEN [hd EXCEPT !.path[l + 2].buf = ZeroBuf(blocksize)]
                  ELSE hd
       IN IF ~fs.image /\ ReadFails(blk, env)
            THEN Step(got, "EIO", NULLP, env)
          ELSE
            LET eh == IF fs.image THEN ZeroBuf(blocksize) ELSE blocks[blk]
                env2 == IF fs.image THEN env ELSE ReadLeft(env)
                lvl == [got EXCEPT !.path[l + 2].buf = eh, !.level = l + 1]
                bad == ext2fs_extent_header_verify(eh, blocksize)
            IN IF bad # "OK" THEN Step(lvl, bad, NULLP, env2)
               ELSE IF path.left > 0 /\ ~InBuf(pbuf, path.curr + 1)
                 THEN Step(lvl, "CRASH", NULLP, env2)
               ELSE
                 LET end_blk == IF path.left > 0
                                THEN ei_block(RdSlot(pbuf, path.curr + 1))
                                ELSE path.end_blk
                     first == Frame(eh, eh.eh_entries, eh.eh_max,
                                    eh.eh_entries - 1, 0, end_blk, 0)
                     lastx == Frame(eh, eh.eh_entries, eh.eh_max, 0,
                                    IF l + 1 < hd.max_depth
                                    THEN 1 ELSE newpath.visit_num,
                                    end_blk, eh.eh_entries - 1)
                     np == IF op = "DOWN" THEN first ELSE lastx
                 IN Step([lvl EXCEPT !.path[l + 2] = np], "OK", np.curr, env2)

DoOp(hd, orig_op, op, env) ==
  CASE op = "CURRENT" -> Step(hd, "OK", PathOf(hd, hd.level).curr, env)
    [] op = "ROOT" -> OpRoot(hd, env)
    [] op = "FIRST_SIB" -> OpFirstSib(hd, env)
    [] op = "NEXT_SIB" -> OpNextSib(hd, env)
    [] op = "PREV_SIB" -> OpPrevSib(hd, env)
    [] op = "LAST_SIB" -> OpLastSib(hd, env)
    [] op = "UP" -> OpUp(hd, orig_op, env)
    [] op \in {"DOWN", "DOWN_AND_LAST"} -> OpDown(hd, op, env)
    [] OTHER -> Step(hd, "OP_NOT_SUPPORTED", NULLP, env)

(***************************************************************************)
(* Decoding of the record at ix, lines 454-482.                            *)
(***************************************************************************)
\* a decoding that takes a length of exactly EXT_INIT_MAX_LEN as uninitialized
DecodeLeafEager(ex, visit_num) ==
  LET len == ex.ee_len
      uninit == len >= EXT_INIT_MAX_LEN
  IN Extent(ex.ee_block, PBlk(ex.ee_start_hi, ex.ee_start),
            IF uninit THEN len - EXT_INIT_MAX_LEN ELSE len,
            {"LEAF"} \cup (IF uninit THEN {"UNINIT"} ELSE {})
                     \cup (IF visit_num # 0 THEN {"SECOND_VISIT"} ELSE {}))

DecodeLeaf(ex, visit_num) ==
  LET len == ex.ee_len
      uninit == len > EXT_INIT_MAX_LEN
  IN Extent(ex.ee_block, PBlk(ex.ee_start_hi, ex.ee_start),
            IF uninit THEN len - EXT_INIT_MAX_LEN ELSE len,
            {"LEAF"} \cup (IF uninit THEN {"UNINIT"} ELSE {})
                     \cup (IF visit_num # 0 THEN {"SECOND_VISIT"} ELSE {}))

DecodeIndex(ix, end_blk, visit_num) ==
  Extent(ei_block(ix), IndexPBlk(ix), end_blk - ei_block(ix),
         IF visit_num # 0 THEN {"SECOND_VISIT"} ELSE {})

\* whether the decoding at ix reads memory outside the node
DecodeWild(hd, ix) ==
  LET path == PathOf(hd, hd.level)
      buf == FrameBuf(hd, hd.level)
  IN \/ ~InBuf(buf, ix)
     \/ hd.level # hd.max_depth /\ path.left > 0 /\ ~InBuf(buf, ix + 1)

Decode(hd, ix) ==
  LET path == PathOf(hd, hd.level)
      buf == FrameBuf(hd, hd.level)
  IN IF hd.level = hd.max_depth
     THEN DecodeLeaf(RdSlot(buf, ix), path.visit_num)
     ELSE DecodeIndex(RdSlot(buf, ix),
                      IF path.left > 0 THEN ei_block(RdSlot(buf, ix + 1))
                                       ELSE path.end_blk,
                      path.visit_num)

(***************************************************************************)
(* ext2fs_extent_get, from the retry label to the return.  ext is the      *)
(* caller's extent, overwritten by each decoding.                          *)
(***************************************************************************)
RECURSIVE get_retry(_, _, _, _), get_stepped(_, _, _), get_decoded(_, _, _)

\* lines 484-494: e is decoded; NEXT_LEAF, PREV_LEAF and LAST_LEAF retry
\* until they are where they want to be
get_decoded(s, orig_op, e) ==
  IF orig_op \in {"NEXT_LEAF", "PREV_LEAF"} /\ s.h.level # s.h.max_depth
    THEN get_retry(s.h, orig_op, e, s.env)
  ELSE IF orig_op = "LAST_LEAF"
          /\ (s.h.level # s.h.max_depth \/ PathOf(s.h, s.h.level).left # 0)
    THEN get_retry(s.h, orig_op, e, s.env)
  ELSE Res(s.h, "OK", e, s.env)

\* lines 451-482: s is the outcome of the switch
get_stepped(s, orig_op, ext) ==
  IF s.ret # "OK" THEN Res(s.h, s.ret, ext, s.env)
  ELSE IF s.ix = NULLP THEN Res(s.h, "NO_CURRENT_NODE", ext, s.env)
  ELSE IF DecodeWild(s.h, s.ix) THEN Res(s.h, "CRASH", ext, s.env)
  ELSE get_decoded(s, orig_op, Decode(s.h, s.ix))

\* lines 334-449: sel is the step chosen at the retry label
get_selected(sel, hd, orig_op, ext, env) ==
  IF sel.ret # "OK" THEN Res(hd, sel.ret, ext, env)
  ELSE get_stepped(DoOp(sel.h, orig_op, sel.op, env), orig_op, ext)

get_retry(hd, orig_op, ext, env) ==
  get_selected(SelectOp(hd, orig_op), hd, orig_op, ext, env)

\* a call that dereferenced a pointer outside its node ends the program
get_returned(r) == IF r.ret = "CRASH" THEN [r EXCEPT !.h.st = "crashed"] ELSE r

ext2fs_extent_get(hd, flags, ext, env) ==
  get_returned(get_retry(hd, flags, ext, env))

(***************************************************************************)
(* extent_goto / ext2fs_extent_goto (leaf_level = 0), lines 562-629.       *)
(***************************************************************************)
RECURSIVE goto_loop(_, _, _, _), goto_down(_, _), goto_next_index(_, _),
          goto_next_leaf(_, _)

\* lines 579-584: the result of PREV_SIB is ignored
goto_before(p) ==
  Res(p.h, IF p.ret = "CRASH" THEN "CRASH" ELSE "EXTENT_NOT_FOUND", p.ext,
      p.env)

\* lines 585-592: n is the outcome of NEXT_SIB at the leaf level
goto_next_leaf(n, blk) ==
  IF n.ret = "EXTENT_NO_NEXT"
    THEN Res(n.h, "EXTENT_NOT_FOUND", n.ext, n.env)
  ELSE IF n.ret # "OK" THEN n
  ELSE goto_loop(n.h, blk, n.ext, n.env)

\* lines 618-621: d is the outcome of DOWN
goto_went_down(d, blk) ==
  IF d.ret # "OK" THEN d ELSE goto_loop(d.h, blk, d.ext, d.env)

\* go_down, lines 615-617
goto_down(r, blk) ==
  goto_went_down(ext2fs_extent_get(r.h, "DOWN", r.ext, r.env), blk)

\* lines 608-611: p is the outcome of PREV_SIB at an interior level
goto_prev_index(p, blk) == IF p.ret # "OK" THEN p ELSE goto_down(p, blk)

\* lines 595-608: n is the outcome of NEXT_SIB at an interior level
goto_next_index(n, blk) ==
  IF n.ret = "EXTENT_NO_NEXT" THEN goto_down(n, blk)
  ELSE IF n.ret # "OK" THEN n
  ELSE IF blk = n.ext.e_lblk THEN goto_down(n, blk)
  ELSE IF blk > n.ext.e_lblk THEN goto_loop(n.h, blk, n.ext, n.env)
  ELSE goto_prev_index(ext2fs_extent_get(n.h, "PREV_SIB", n.ext, n.env), blk)

\* while (1), lines 573-622
goto_loop(hd, blk, extent, env) ==
  IF hd.level = hd.max_depth THEN
    IF blk >= extent.e_lblk /\ blk < extent.e_lblk + extent.e_len
      THEN Res(hd, "OK", extent, env)
    ELSE IF blk < extent.e_lblk
      THEN goto_before(ext2fs_extent_get(hd, "PREV_SIB", extent, env))
    ELSE goto_next_leaf(ext2fs_extent_get(hd, "NEXT_SIB", extent, env), blk)
  ELSE goto_next_index(ext2fs_extent_get(hd, "NEXT_SIB", extent, env), blk)

\* lines 568-573: r is the outcome of ROOT
goto_rooted(r, blk) ==
  IF r.ret # "OK" THEN r ELSE goto_loop(r.h, blk, r.ext, r.env)

\* a goto that starts at the cursor instead of the root
GotoFromCursor(hd, blk, env) ==
  goto_rooted(ext2fs_extent_get(hd, "CURRENT", NoExtent, env), blk)

ext2fs_extent_goto(hd, blk, env) ==
  goto_rooted(ext2fs_extent_get(hd, "ROOT", NoExtent, env), blk)

(***************************************************************************)
(* Mutation.  A world is the handle together with the disk and the log of  *)
(* the writes the call has issued; bad is the set of the ordinals of the    *)
(* call's writes that fail.                                                *)
(***************************************************************************)
World(hd, ino_tab, blks, log, bad) ==
  [h |-> hd, inodes |-> ino_tab, blocks |-> blks, wlog |-> log, bad |-> bad]

Out(w, ret) == [w |-> w, ret |-> ret]

Crashed(w) == Out([w EXCEPT !.h.st = "crashed"], "CRASH")

WriteFails(w) == (Len(w.wlog) + 1) \in w.bad

WInode(ino) == [kind |-> "inode", ino |-> ino, blk |-> PBlk(0, 0)]
WBlock(blk) == [kind |-> "block", ino |-> 0, blk |-> blk]

\* a write-back that rewrites the inode whatever the level
UpdateInodeOnly(w) ==
  IF WriteFails(w)
  THEN Out([w EXCEPT !.wlog = Append(w.wlog, WInode(w.h.ino))], "EIO")
  ELSE Out([w EXCEPT !.inodes[w.h.ino] = w.h.inode,
                     !.wlog = Append(w.wlog, WInode(w.h.ino))], "OK")

\* update_path, lines 497-515
update_path(w) ==
  LET hd == w.h
      l == hd.level
  IN IF l = 0 THEN
       IF WriteFails(w)
       THEN Out([w EXCEPT !.wlog = Append(w.wlog, WInode(hd.ino))], "EIO")
       ELSE Out([w EXCEPT !.inodes[hd.ino] = hd.inode,
                          !.wlog = Append(w.wlog, WInode(hd.ino))], "OK")
     ELSE
       LET pbuf == FrameBuf(hd, l - 1)
           pc == PathOf(hd, l - 1).curr
       IN IF pc = NULLP \/ ~InBuf(pbuf, pc) THEN Crashed(w)
          ELSE LET blk == IndexPBlk(RdSlot(pbuf, pc))
               IN IF WriteFails(w) \/ blk \notin DOMAIN w.blocks
                  THEN Out([w EXCEPT !.wlog = Append(w.wlog, WBlock(blk))],
                           "EIO")
                  ELSE Out([w EXCEPT !.blocks[blk] = FrameBuf(hd, l),
                                     !.wlog = Append(w.wlog, WBlock(blk))],
                           "OK")

\* !(handle->fs->flags & EXT2_FLAG_RW) that never holds
Unguarded == FALSE

\* !(handle->fs->flags & EXT2_FLAG_RW), the first test of every mutation
NotWritable == ~fs.rw

\* the record replace stores at a leaf, lines 654-657
EncodeLeaf(extent) ==
  Slot(extent.e_lblk, extent.e_len % 65536, extent.e_pblk.hi % 65536,
       extent.e_pblk.lo)

\* the record replace stores at an interior node, lines 661-664
EncodeIndex(extent) ==
  IdxSlot(extent.e_lblk, extent.e_pblk.lo, extent.e_pblk.hi % 65536, 0)

\* lines 666-667: the result u of update_path is dropped
replace_written(u) == IF u.ret = "CRASH" THEN u ELSE Out(u.w, "OK")

\* ext2fs_extent_replace, lines 631-668
ext2fs_extent_replace(w, flags, extent) ==
  LET hd == w.h
      l == hd.level
      path == PathOf(hd, l)
      buf == FrameBuf(hd, l)
  IN IF NotWritable THEN Out(w, "RO_FILSYS")
     ELSE IF path.curr = NULLP THEN Out(w, "NO_CURRENT_NODE")
     ELSE IF ~InBuf(buf, path.curr) THEN Crashed(w)
     ELSE
       LET rec == IF l = hd.max_depth THEN EncodeLeaf(extent)
                                      ELSE EncodeIndex(extent)
       IN replace_written(update_path(
            [w EXCEPT !.h = SetFrameBuf(hd, l, WrSlot(buf, path.curr, rec))]))

\* memmove of n records inside one node buffer, old contents read first
RECURSIVE MoveSlots(_, _, _, _, _)
MoveSlots(old, new, dst, src, n) ==
  IF n <= 0 THEN new
  ELSE MoveSlots(old, WrSlot(new, dst + n - 1, RdSlot(old, src + n - 1)),
                 dst, src, n - 1)

MoveInBuf(b, dst, src, n) ==
  n <= 0 \/ (InBuf(b, dst) /\ InBuf(b, src)
             /\ InBuf(b, dst + n - 1) /\ InBuf(b, src + n - 1))

\* a delete that forgets path->entries--
KeptCount(path) == path.entries

\* path->entries--, line 758
DelCount(path) == path.entries - 1

\* ext2fs_extent_delete, lines 727-768
ext2fs_extent_delete(w, flags) ==
  LET hd == w.h
      l == hd.level
      path == PathOf(hd, l)
      buf == FrameBuf(hd, l)
  IN IF NotWritable THEN Out(w, "RO_FILSYS")
     ELSE IF path.curr = NULLP THEN Out(w, "NO_CURRENT_NODE")
     ELSE IF path.left < 0 \/ ~MoveInBuf(buf, path.curr, path.curr + 1, path.left)
       THEN Crashed(w)
     ELSE
       LET moved == IF path.left # 0
                    THEN MoveSlots(buf, buf, path.curr, path.curr + 1, path.left)
                    ELSE buf
           left == IF path.left # 0 THEN path.left - 1 ELSE path.left
           cur == IF path.left # 0 THEN path.curr ELSE path.curr - 1
           entries == DelCount(path)
           nb == [moved EXCEPT !.eh_entries = entries % 65536]
           h1 == [hd EXCEPT !.path[l + 1].left = left,
                            !.path[l + 1].entries = entries,
                            !.path[l + 1].curr =
                               IF entries = 0 THEN NULLP ELSE cur]
       IN update_path([w EXCEPT !.h = SetFrameBuf(h1, l, nb)])

\* errout, lines 722-724: d is the outcome of the delete, ret the error
insert_undone(d, ret) == IF d.ret = "CRASH" THEN d ELSE Out(d.w, ret)

\* lines 716-720: u is the outcome of update_path
insert_written(u) ==
  IF u.ret = "OK" \/ u.ret = "CRASH" THEN u
  ELSE insert_undone(ext2fs_extent_delete(u.w, FALSE), u.ret)

\* lines 712-716: r is the outcome of the replace
insert_replaced(r) ==
  IF r.ret = "CRASH" THEN r
  ELSE IF r.ret # "OK"
    THEN insert_undone(ext2fs_extent_delete(r.w, FALSE), r.ret)
  ELSE insert_written(update_path(r.w))

\* a full test that lets one record too many in
FullOffByOne(path) == path.entries > path.max_entries

\* path->entries >= path->max_entries, line 688
Full(path) == path.entries >= path.max_entries

\* ext2fs_extent_insert, lines 670-725
ext2fs_extent_insert(w, after, extent) ==
  LET hd == w.h
      l == hd.level
      path == PathOf(hd, l)
      buf == FrameBuf(hd, l)
  IN IF NotWritable THEN Out(w, "RO_FILSYS")
     ELSE IF Full(path)
       THEN Out(w, "CANT_INSERT_EXTENT")
     ELSE
       LET ix == IF path.curr # NULLP
                 THEN (IF after THEN path.curr + 1 ELSE path.curr)
                 ELSE 0
           left == IF path.curr # NULLP /\ after
                   THEN path.left - 1 ELSE path.left
       IN IF left >= 0 /\ ~MoveInBuf(buf, ix + 1, ix, left + 1)
            THEN Crashed(w)
          ELSE
            LET moved == IF left >= 0
                         THEN MoveSlots(buf, buf, ix + 1, ix, left + 1)
                         ELSE buf
                nb == [moved EXCEPT !.eh_entries = (path.entries + 1) % 65536]
                h1 == [hd EXCEPT !.path[l + 1].curr = ix,
                                 !.path[l + 1].left = left + 1,
                                 !.path[l + 1].entries = path.entries + 1]
            IN insert_replaced(ext2fs_extent_replace(
                 [w EXCEPT !.h = SetFrameBuf(h1, l, nb)], FALSE, extent))

(***************************************************************************)
(* ext2fs_extent_open, lines 173-239.  afail is the number of the memory   *)
(* allocation that fails (0: none), rfail says that the inode read fails.  *)
(***************************************************************************)
EndBlk(inode) == (inode.i_size + (blocksize - 1)) \div blocksize

\* a block of memory obtained with ext2fs_get_mem: the handle, the inode
\* copy, the frame array, or the node buffer of the frame of a level
Alloc(kind, level) == [kind |-> kind, level |-> level]

AHandle == Alloc("handle", 0)
AInode == Alloc("inode", 0)
APath == Alloc("path", 0)

\* the outcome of open: held is what the call allocated and did not release
OpenOut(hd, ret, held) == [w |-> hd, ret |-> ret, held |-> held]

\* the node buffers allocated by descents, lines 392-398
FrameBufs(hd) ==
  {Alloc("buf", i) : i \in {j \in 1..(Len(hd.path) - 1) :
                             PathOf(hd, j).buf # NoBuf}}

\* ext2fs_extent_free, lines 154-171: what is left of the allocations hp
ext2fs_extent_free(hd, hp) ==
  LET inode == IF AInode \in hp THEN {AInode} ELSE {}
      bufs == IF APath \in hp
              THEN {Alloc("buf", i) : i \in 1..(hd.max_depth - 1)} \cup {APath}
              ELSE {}
  IN hp \ (inode \cup bufs \cup {AHandle})

ext2fs_extent_open(ino, afail, rfail) ==
  IF ino = 0 \/ ino > fs.s_inodes_count
    THEN OpenOut(NoHandle, "BAD_INODE_NUM", {})
  ELSE IF afail = 1 THEN OpenOut(NoHandle, "ENOMEM", {})
  ELSE IF afail = 2
    THEN OpenOut(NoHandle, "ENOMEM", ext2fs_extent_free(NoHandle, {AHandle}))
  ELSE IF rfail
    THEN OpenOut(NoHandle, "EIO",
                 ext2fs_extent_free(NoHandle, {AHandle, AInode}))
  ELSE
    LET inode == inodes[ino]
        eh == inode.i_block
        bad == ext2fs_extent_header_verify(eh, IBlockSize)
    IN IF ~inode.EXT4_EXTENTS_FL
         THEN OpenOut(NoHandle, "INODE_NOT_EXTENT", {AHandle, AInode})
       ELSE IF bad # "OK" THEN OpenOut(NoHandle, bad, {AHandle, AInode})
       ELSE IF afail = 3
         THEN OpenOut([NoHandle EXCEPT !.st = "crashed"], "CRASH",
                      {AHandle, AInode})
       ELSE OpenOut([st |-> "open", ino |-> ino, level |-> 0,
                     max_depth |-> eh.eh_depth, inode |-> inode,
                     path |-> [i \in 1..(eh.eh_depth + 1) |->
                                IF i = 1
                                THEN Frame(NoBuf, eh.eh_entries, eh.eh_max,
                                           eh.eh_entries, 1, EndBlk(inode),
                                           NULLP)
                                ELSE ZeroFrame]],
                    "OK", {AHandle, AInode, APath})

(***************************************************************************)
(* Disk images the behaviours start from.                                  *)
(***************************************************************************)
L(b, len, p) == Slot(b, len, 0, p)
I(b, blk) == IdxSlot(b, blk, 0, 0)

Pad(recs, n) == [i \in 1..n |-> IF i <= Len(recs) THEN recs[i] ELSE ZeroSlot]

RootNode(depth, recs) ==
  Buf(EXT3_EXT_MAGIC, Len(recs), NSlots(IBlockSize), depth,
      Pad(recs, NSlots(IBlockSize)))

BlockNode(depth, recs) ==
  Buf(EXT3_EXT_MAGIC, Len(recs), NSlots(blocksize), depth,
      Pad(recs, NSlots(blocksize)))

\* a leaf block filled to capacity: extents of 4 blocks, 8 apart, from 20
FullLeaf == BlockNode(0, [i \in 1..NSlots(blocksize) |->
                            L(12 + 8 * i, 4, 200 + 8 * i)])

LeafA == BlockNode(0, <<L(0, 4, 100), L(4, 12, 104)>>)
LeafB == BlockNode(0, <<L(16, 8, 200), L(24, 8, 208)>>)
LeafH == BlockNode(0, <<L(0, 4, 100), L(6, 4, 110)>>)

\* blocks are the blocks 1, 2, .. of the device, high the blocks 2^32 + 1,
\* 2^32 + 2, ..
Image(root, blks) == [root |-> root, blocks |-> blks, high |-> <<>>]

\* an empty file
ImgEmpty == Image(RootNode(0, <<>>), <<>>)
\* one extent in the inode
ImgOne == Image(RootNode(0, <<L(0, 8, 100)>>), <<>>)
\* a full root leaf, its third extent uninitialized of length 5
ImgFull ==
  Image(RootNode(0, <<L(0, 4, 100), L(4, 12, 200),
                      L(20, EXT_INIT_MAX_LEN + 5, 300), L(30, 2, 400)>>),
        <<>>)
\* two leaf blocks without holes
ImgTwo == Image(RootNode(1, <<I(0, 1), I(16, 2)>>), <<LeafA, LeafB>>)
\* two leaf blocks with holes; the second index starts below its leaf
ImgHoles == Image(RootNode(1, <<I(0, 1), I(16, 2)>>), <<LeafH, FullLeaf>>)
\* three levels
ImgDeep ==
  Image(RootNode(2, <<I(0, 3), I(40, 4)>>),
        <<LeafA, LeafB, BlockNode(1, <<I(0, 1), I(16, 2)>>),
          BlockNode(1, <<I(40, 5)>>), BlockNode(0, <<L(40, 4, 300)>>)>>)
\* a child block whose header is damaged
ImgBad ==
  Image(RootNode(1, <<I(0, 1), I(16, 2)>>),
        <<LeafA, [LeafB EXCEPT !.eh_magic = 0]>>)
\* a child block all of whose records were deleted
ImgHollow ==
  Image(RootNode(1, <<I(0, 1), I(16, 2)>>),
        <<LeafA, [LeafB EXCEPT !.eh_entries = 0]>>)
\* a root whose header is damaged
ImgRootBad ==
  Image([RootNode(0, <<L(0, 8, 100)>>) EXCEPT !.eh_magic = 0], <<>>)

\* an initialized extent of the largest length, then an uninitialized one
\* of the largest length whose physical block lies above 2^32
ImgWide ==
  Image(RootNode(0, <<L(0, EXT_INIT_MAX_LEN, 100),
                      Slot(EXT_INIT_MAX_LEN, 65535, 1, 7)>>), <<>>)

\* a leaf block above 2^32: the root's index record addresses block
\* 2^32 + 1, which holds the leaf; block 1 holds another leaf
ImgHigh ==
  [Image(RootNode(1, <<IdxSlot(16, 1, 1, 0)>>), <<LeafA>>)
     EXCEPT !.high = <<LeafB>>]

Images ==
  {ImgEmpty, ImgOne, ImgFull, ImgTwo, ImgHoles, ImgDeep, ImgBad, ImgHollow,
   ImgRootBad, ImgWide, ImgHigh}

DiskOf(img) ==
  [a \in {PBlk(0, n) : n \in 1..Len(img.blocks)}
          \cup {PBlk(1, n) : n \in 1..Len(img.high)} |->
     IF a.hi = 0 THEN img.blocks[a.lo] ELSE img.high[a.lo]]

\* inode 1 holds the extent tree, inode 2 is block-mapped
InodesOf(img) ==
  [i \in 1..2 |->
     IF i = 1
     THEN [EXT4_EXTENTS_FL |-> TRUE, i_size |-> 64 * blocksize,
           i_block |-> img.root]
     ELSE [EXT4_EXTENTS_FL |-> FALSE, i_size |-> 0,
           i_block |-> ZeroBuf(IBlockSize)]]


(***************************************************************************)
(* The state machine.  last is the latest observed call (its operation,    *)
(* inputs, whether an injected fault struck it, its return code and the    *)
(* extent it returned), prev the observed call before it when that was a   *)
(* goto or a mutation, wlog the writes the latest call issued, walk the    *)
(* leaf enumeration in progress, snap the node buffer as it was before an  *)
(* insert-after-last, heap the memory allocated since the latest open      *)
(* began and not released.  A call made with obs = FALSE moves the handle  *)
(* and leaves no record.                                                   *)
(***************************************************************************)
Call(op, blk, after, in, fault, ret, ext) ==
  [op |-> op, blk |-> blk, after |-> after, in |-> in, fault |-> fault,
   ret |-> ret, ext |-> ext]

NoCall == Call("none", 0 - 1, FALSE, NoExtent, FALSE, "OK", NoExtent)

Walk(mode, seq) == [mode |-> mode, seq |-> seq]
NoWalk == Walk("none", <<>>)

Snap(st, buf) == [st |-> st, buf |-> buf]
NoSnap == Snap("none", NoBuf)

Ops ==
  {"CURRENT", "ROOT", "FIRST_SIB", "NEXT_SIB", "PREV_SIB", "LAST_SIB", "UP",
   "DOWN", "DOWN_AND_LAST", "NEXT", "PREV", "NEXT_LEAF", "PREV_LEAF",
   "LAST_LEAF", "BOGUS"}

NoFault == Env(0 - 1, FALSE)

\* the environments of a call: no fault, the first or the second block read
\* fails, the memory allocation fails
Faults == {NoFault, Env(0, FALSE), Env(1, FALSE), Env(0 - 1, TRUE)}

\* whether an injected fault struck the call
Struck(r) == r.ret = "ENOMEM" \/ (r.ret = "EIO" /\ r.env.rd = 0)

WStruck(o) == o.w.bad \cap (1..Len(o.w.wlog)) # {}

KeepPrev(c) == IF c.op \in {"goto", "replace", "insert"} THEN c ELSE NoCall

\* 32-bit fields are explored below 2^31: no call is made on a handle one of
\* whose headers, read as a record, has a logical block of 2^31 or more
Narrow(hd) ==
  \A l \in 0..hd.max_depth : FrameBuf(hd, l).eh_entries < 32768

InitOn(imgs, rws, ims) ==
  /\ \E img \in imgs :
       /\ inodes = InodesOf(img)
       /\ blocks = DiskOf(img)
  /\ fs \in {[rw |-> rw, image |-> im, s_inodes_count |-> 2] :
               rw \in rws, im \in ims}
  /\ h = NoHandle
  /\ last = NoCall
  /\ prev = NoCall
  /\ wlog = <<>>
  /\ walk = NoWalk
  /\ snap = NoSnap
  /\ nmut = 0
  /\ heap = {}

\* r is the outcome of the open
Opened(ino, r) ==
  /\ h' = r.w
  /\ heap' = r.held
  /\ last' = Call("open", ino, FALSE, NoExtent,
                  r.ret \in {"ENOMEM", "EIO", "CRASH"}, r.ret, NoExtent)

Open(ino, afail, rfail) ==
  /\ h.st = "none"
  /\ Opened(ino, ext2fs_extent_open(ino, afail, rfail))
  /\ prev' = NoCall
  /\ wlog' = <<>>
  /\ walk' = NoWalk
  /\ snap' = NoSnap
  /\ UNCHANGED <<fs, inodes, blocks, nmut>>

\* the observed call before this one left the cursor on a leaf record of a
\* tree with interior nodes: a successful goto, or a successful DOWN into a
\* leaf
AtLeaf ==
  /\ last.op \in {"goto", "DOWN"}
  /\ last.ret = "OK"
  /\ h.max_depth >= 1
  /\ h.level = h.max_depth

\* the leaf enumeration after an observed get: ROOT starts a forward walk,
\* LAST_LEAF on a freshly opened handle a backward one; NEXT_LEAF and
\* PREV_LEAF extend it, end it (EXTENT_NO_NEXT / EXTENT_NO_PREV) or break it.
\* NEXT_LEAF from a leaf that a goto or a DOWN reached starts a walk onward,
\* of which the latest two records are kept, the first being the record the
\* cursor was on.
WalkAfter(op, r) ==
  IF op = "ROOT"
    THEN IF r.ret = "OK"
         THEN Walk("fwd", IF r.h.max_depth = 0 THEN <<r.ext>> ELSE <<>>)
         ELSE Walk("fwd_err", <<>>)
  ELSE IF op = "NEXT_LEAF" /\ walk.mode = "fwd"
    THEN IF r.ret = "OK" THEN Walk("fwd", Append(walk.seq, r.ext))
         ELSE IF r.ret = "EXTENT_NO_NEXT" THEN Walk("fwd_end", walk.seq)
         ELSE Walk("fwd_err", walk.seq)
  ELSE IF op = "LAST_LEAF" /\ last.op = "open"
    THEN IF r.ret = "OK" THEN Walk("rev", <<r.ext>>)
         ELSE Walk("rev_err", <<>>)
  ELSE IF op = "PREV_LEAF" /\ walk.mode = "rev"
    THEN IF r.ret = "OK" THEN Walk("rev", Append(walk.seq, r.ext))
         ELSE IF r.ret = "EXTENT_NO_PREV" THEN Walk("rev_end", walk.seq)
         ELSE Walk("rev_err", walk.seq)
  ELSE IF op = "NEXT_LEAF" /\ (AtLeaf \/ walk.mode = "on")
    THEN LET from == IF walk.mode = "on" THEN walk.seq[2]
                     ELSE ext2fs_extent_get(h, "CURRENT", NoExtent,
                                            NoFault).ext
         IN IF r.ret = "OK" THEN Walk("on", <<from, r.ext>>)
            ELSE IF r.ret = "EXTENT_NO_NEXT" THEN Walk("on_end", <<from>>)
            ELSE Walk("on_err", <<from>>)
  ELSE NoWalk

\* r is the outcome of the get
Got(op, obs, r) ==
  /\ h' = r.h
  /\ heap' = heap \cup FrameBufs(r.h)
  /\ last' = IF obs
             THEN Call(op, 0 - 1, FALSE, NoExtent, Struck(r), r.ret, r.ext)
             ELSE NoCall
  /\ walk' = IF obs THEN WalkAfter(op, r) ELSE NoWalk

Get(op, env, obs) ==
  /\ h.st = "open"
  /\ Narrow(h)
  /\ Got(op, obs, ext2fs_extent_get(h, op, NoExtent, env))
  /\ prev' = IF obs THEN KeepPrev(last) ELSE NoCall
  /\ wlog' = <<>>
  /\ snap' = NoSnap
  /\ UNCHANGED <<fs, inodes, blocks, nmut>>

\* r is the outcome of the goto
Sought(blk, obs, r) ==
  /\ h' = r.h
  /\ heap' = heap \cup FrameBufs(r.h)
  /\ last' = IF obs
             THEN Call("goto", blk, FALSE, NoExtent, Struck(r), r.ret,
                       NoExtent)
             ELSE NoCall

Goto(blk, env, obs) ==
  /\ h.st = "open"
  /\ Narrow(h)
  /\ Sought(blk, obs, ext2fs_extent_goto(h, blk, env))
  /\ prev' = NoCall
  /\ wlog' = <<>>
  /\ walk' = NoWalk
  /\ snap' = NoSnap
  /\ UNCHANGED <<fs, inodes, blocks, nmut>>

\* the cursor of the current frame is on the frame's last record
OnLast(hd) ==
  LET path == PathOf(hd, hd.level)
  IN path.curr # NULLP /\ path.curr = path.entries - 1 /\ path.left = 0

\* o is the outcome of the mutation op with its inputs after and extent
Mutated(op, after, extent, o) ==
  /\ h' = o.w.h
  /\ inodes' = o.w.inodes
  /\ blocks' = o.w.blocks
  /\ wlog' = o.w.wlog
  /\ last' = Call(op, 0 - 1, after, extent, WStruck(o), o.ret, NoExtent)
  /\ snap' = IF op = "insert" /\ after /\ o.ret = "OK" /\ OnLast(h)
               THEN Snap("inserted", FrameBuf(h, h.level))
             ELSE IF op = "delete" /\ snap.st = "inserted"
               THEN Snap("deleted", snap.buf)
             ELSE NoSnap
  /\ prev' = IF op = "delete" THEN KeepPrev(last) ELSE NoCall
  /\ walk' = NoWalk
  /\ nmut' = nmut + 1
  /\ UNCHANGED <<fs, heap>>

Replace(extent, bad) ==
  /\ h.st = "open"
  /\ Narrow(h)
  /\ nmut < MaxMut
  /\ Mutated("replace", FALSE, extent,
             ext2fs_extent_replace(World(h, inodes, blocks, <<>>, bad),
                                   FALSE, extent))

Insert(after, extent, bad) ==
  /\ h.st = "open"
  /\ Narrow(h)
  /\ nmut < MaxMut
  /\ Mutated("insert", after, extent,
             ext2fs_extent_insert(World(h, inodes, blocks, <<>>, bad),
                                  after, extent))

Delete(bad) ==
  /\ h.st = "open"
  /\ Narrow(h)
  /\ nmut < MaxMut
  /\ Mutated("delete", FALSE, NoExtent,
             ext2fs_extent_delete(World(h, inodes, blocks, <<>>, bad), FALSE))

\* the caller releases the handle
Free ==
  /\ h.st = "open"
  /\ heap' = ext2fs_extent_free(h, heap)
  /\ h' = NoHandle
  /\ last' = Call("free", 0 - 1, FALSE, NoExtent, FALSE, "OK", NoExtent)
  /\ prev' = NoCall
  /\ wlog' = <<>>
  /\ walk' = NoWalk
  /\ snap' = NoSnap
  /\ UNCHANGED <<fs, inodes, blocks, nmut>>

(***************************************************************************)
(* Specifications.  Spec is the whole engine: every operation, with read,  *)
(* allocation and write faults, on a writable or read-only filesystem, in  *)
(* normal or image mode; of the gets only CURRENT after a replace is        *)
(* observed, and once MaxMut mutations are made no other get follows.      *)
(* SpecNav is                                                              *)
(* navigation alone (no mutation), with the leaf walks and every goto      *)
(* observed, and the release of the handle.  SpecProbe is navigation with  *)
(* one get of any kind observed.                                           *)
(***************************************************************************)
\* the largest logical block a goto asks for
MaxLblk == 44

\* extents handed to replace and insert: an initialized one of the largest
\* length, an uninitialized one with a physical block above 2^32
ExtIn ==
  {Extent(8, PBlk(0, 200), EXT_INIT_MAX_LEN, {}),
   Extent(2, PBlk(1, 300), 5, {"UNINIT"})}

\* write faults of one call: none, the first write fails, the second fails
BadWrites == {{}, {1}, {2}}

OpenAny ==
  \E ino \in 0..3, afail \in 0..3, rfail \in BOOLEAN : Open(ino, afail, rfail)

Move == nmut < MaxMut /\ \E op \in Ops, env \in Faults : Get(op, env, FALSE)

Seek ==
  nmut < MaxMut /\ \E blk \in {0, 5, 17, 35, 40}, env \in Faults : Goto(blk, env, FALSE)

\* the observed gets: the calls of a leaf walk, DOWN, and CURRENT after a
\* goto
WalkStep ==
  \/ Get("ROOT", NoFault, TRUE)
  \/ walk.mode = "fwd" /\ Get("NEXT_LEAF", NoFault, TRUE)
  \/ last.op = "open" /\ Get("LAST_LEAF", NoFault, TRUE)
  \/ walk.mode = "rev" /\ Get("PREV_LEAF", NoFault, TRUE)
  \/ Get("DOWN", NoFault, TRUE)
  \/ (AtLeaf \/ walk.mode = "on") /\ Get("NEXT_LEAF", NoFault, TRUE)

Look == last.op = "goto" /\ Get("CURRENT", NoFault, TRUE)

SeekAny == \E blk \in 0..MaxLblk : Goto(blk, NoFault, TRUE)

InitNav == InitOn(Images, {FALSE}, BOOLEAN)

NextNav == OpenAny \/ Move \/ Seek \/ WalkStep \/ Look \/ SeekAny \/ Free

SpecNav == InitNav /\ [][NextNav]_vars

\* SpecProbe: unobserved gets and gotos bring the handle anywhere, then one
\* get is observed, without a fault or with its first block read failing;
\* the behaviour ends with it
Roam == last.op \in {"none", "open"} /\ (Move \/ Seek)

Probe ==
  /\ last.op \in {"none", "open"}
  /\ \E op \in Ops, env \in {NoFault, Env(0, FALSE)} : Get(op, env, TRUE)

NextProbe == OpenAny \/ Roam \/ Probe

SpecProbe == InitNav /\ [][NextProbe]_vars

\* the observed get of Spec: CURRENT after a replace
Check == last.op = "replace" /\ Get("CURRENT", NoFault, TRUE)

Mutate ==
  \/ \E extent \in ExtIn, bad \in BadWrites : Replace(extent, bad)
  \/ \E after \in BOOLEAN, extent \in ExtIn, bad \in BadWrites :
       Insert(after, extent, bad)
  \/ \E bad \in BadWrites : Delete(bad)

Init == InitOn({ImgEmpty, ImgOne, ImgFull, ImgHoles, ImgBad}, BOOLEAN, BOOLEAN)

Next == OpenAny \/ Move \/ Seek \/ Check \/ Mutate

Spec == Init /\ [][Next]_vars

(***************************************************************************)
(* The tree as the handle reads it: the root in the handle's inode copy,   *)
(* every other node in the block its index record addresses.               *)
(***************************************************************************)
RECURSIVE NodeOK(_, _, _)
\* the node verifies, has at least one entry, lies at the depth its header
\* states, and so do the nodes below it
NodeOK(node, depth, size) ==
  /\ ext2fs_extent_header_verify(node, size) = "OK"
  /\ node.eh_entries >= 1
  /\ node.eh_depth = depth
  /\ depth > 0 =>
       \A i \in 1..node.eh_entries :
         LET ix == node.recs[i]
         IN /\ ei_leaf_hi(ix) = 0
            /\ DownBlk(ix) \in DOMAIN blocks
            /\ NodeOK(blocks[DownBlk(ix)], depth - 1, blocksize)

RECURSIVE NodeLeaves(_, _), ChildLeaves(_, _, _)
\* the leaf records below a node, left to right
NodeLeaves(node, depth) ==
  IF depth = 0
  THEN [i \in 1..node.eh_entries |-> DecodeLeaf(node.recs[i], 0)]
  ELSE ChildLeaves(node, depth, node.eh_entries)

ChildLeaves(node, depth, n) ==
  IF n = 0 THEN <<>>
  ELSE ChildLeaves(node, depth, n - 1)
         \o NodeLeaves(blocks[DownBlk(node.recs[n])], depth - 1)

TreeLeaves == NodeLeaves(h.inode.i_block, h.max_depth)

\* leaf records in strictly increasing e_lblk order, none empty, none
\* overlapping the next
Sorted(seq) ==
  /\ \A i \in 1..Len(seq) : seq[i].e_len >= 1
  /\ \A i \in 1..(Len(seq) - 1) :
       seq[i].e_lblk + seq[i].e_len <= seq[i + 1].e_lblk

RECURSIVE Indexed(_, _)
\* every index record after the first separates the subtree before it from
\* its own: last block before <= ei_block <= first block of its own
Indexed(node, depth) ==
  depth > 0 =>
    \A i \in 1..node.eh_entries :
      LET child == blocks[DownBlk(node.recs[i])]
          own == NodeLeaves(child, depth - 1)
      IN /\ Indexed(child, depth - 1)
         /\ i > 1 =>
              LET before == NodeLeaves(blocks[DownBlk(node.recs[i - 1])],
                                       depth - 1)
                  lastb == before[Len(before)]
              IN /\ lastb.e_lblk + lastb.e_len <= ei_block(node.recs[i])
                 /\ ei_block(node.recs[i]) <= own[1].e_lblk

\* an open handle on a well-formed tree that it can read (not image mode)
WellFormed ==
  /\ h.st = "open"
  /\ ~fs.image
  /\ NodeOK(h.inode.i_block, h.max_depth, IBlockSize)
  /\ Sorted(TreeLeaves)
  /\ Indexed(h.inode.i_block, h.max_depth)

\* an extent without the traversal artifact SECOND_VISIT
Core(e) == [e EXCEPT !.e_flags = @ \ {"SECOND_VISIT"}]

Cores(seq) == [i \in 1..Len(seq) |-> Core(seq[i])]

IsPrefix(s, t) == Len(s) <= Len(t) /\ s = SubSeq(t, 1, Len(s))

Reverse(s) == [i \in 1..Len(s) |-> s[Len(s) + 1 - i]]

Covers(e, b) == e.e_lblk <= b /\ b < e.e_lblk + e.e_len

\* the tree of the worked scenario: root (0 -> A), (16 -> B)
IsTwo ==
  /\ h.st = "open"
  /\ ~fs.image
  /\ h.inode.i_block = ImgTwo.root
  /\ blocks = DiskOf(ImgTwo)

(***************************************************************************)
(* Leaf walks.                                                             *)
(***************************************************************************)
\* C1: on a well-formed tree, get(ROOT) followed by repeated get(NEXT_LEAF)
\* returns the leaf records of the tree, each once, left to right (so in
\* strictly increasing e_lblk), the ROOT result counting only at depth 0,
\* and the call after the last leaf returns EXTENT_NO_NEXT; no call of the
\* walk fails otherwise.
C1_NextLeafWalk ==
  WellFormed =>
    /\ walk.mode # "fwd_err"
    /\ walk.mode = "fwd" => IsPrefix(Cores(walk.seq), TreeLeaves)
    /\ walk.mode = "fwd_end" => Cores(walk.seq) = TreeLeaves

\* the walk of the two-level tree has ended after lblks 0, 4, 16, 24
C1_WalkDone ==
  /\ IsTwo
  /\ walk.mode = "fwd_end"
  /\ [i \in 1..Len(walk.seq) |-> walk.seq[i].e_lblk] = <<0, 4, 16, 24>>

\* C2: on a well-formed tree, get(LAST_LEAF) on a freshly opened handle
\* followed by get(PREV_LEAF) until EXTENT_NO_PREV returns the leaf records
\* of the tree right to left: the forward walk's sequence reversed.
C2_PrevLeafWalk ==
  WellFormed =>
    /\ walk.mode # "rev_err"
    /\ walk.mode = "rev" => IsPrefix(Cores(walk.seq), Reverse(TreeLeaves))
    /\ walk.mode = "rev_end" => Cores(walk.seq) = Reverse(TreeLeaves)

\* the backward walk of the three-level tree has ended after its five leaves
C2_WalkDone ==
  /\ WellFormed
  /\ h.max_depth = 2
  /\ walk.mode = "rev_end"
  /\ Len(walk.seq) = 5

(***************************************************************************)
(* goto.                                                                   *)
(***************************************************************************)
\* C3: on a well-formed tree, from every cursor state, goto(b) for a block b
\* that a leaf record L covers returns success with the cursor at level
\* max_depth, and the following get(CURRENT) returns L.
C3_GotoCovered ==
  WellFormed =>
    \A i \in 1..Len(TreeLeaves) :
      /\ (last.op = "goto" /\ Covers(TreeLeaves[i], last.blk)) =>
            last.ret = "OK" /\ h.level = h.max_depth
      /\ (last.op = "CURRENT" /\ prev.op = "goto"
          /\ Covers(TreeLeaves[i], prev.blk)) =>
            /\ prev.ret = "OK"
            /\ last.ret = "OK"
            /\ Core(last.ext) = TreeLeaves[i]
            /\ h.level = h.max_depth

\* goto(42) in the three-level tree, then CURRENT
C3_Sought ==
  /\ WellFormed
  /\ h.max_depth = 2
  /\ last.op = "CURRENT"
  /\ prev.op = "goto"
  /\ prev.blk = 42
  /\ last.ext.e_lblk = 40

\* b lies strictly inside the hole between the i-th leaf record and the next
InHole(i, b) ==
  /\ TreeLeaves[i].e_lblk + TreeLeaves[i].e_len <= b
  /\ b < TreeLeaves[i + 1].e_lblk

\* C4: on a well-formed tree, goto(b) for a block b strictly inside the hole
\* between consecutive leaf records L_prev and L_next returns
\* EXTENT_NOT_FOUND, and the following get(CURRENT) returns L_prev.
C4_HoleLeavesPrev ==
  WellFormed =>
    \A i \in 1..(Len(TreeLeaves) - 1) :
      /\ (last.op = "goto" /\ InHole(i, last.blk)) =>
            last.ret = "EXTENT_NOT_FOUND"
      /\ (last.op = "CURRENT" /\ prev.op = "goto" /\ InHole(i, prev.blk)) =>
            /\ prev.ret = "EXTENT_NOT_FOUND"
            /\ last.ret = "OK"
            /\ Core(last.ext) = TreeLeaves[i]

\* C5, as the code has it: in the two-level tree of the scenario goto(12)
\* returns success (the leaf at lblk 4 of length 12 covers block 12) and the
\* following get(CURRENT) returns the leaf with e_lblk = 4 and e_len = 12.
C5_Goto12Covered ==
  IsTwo =>
    /\ (last.op = "goto" /\ last.blk = 12) => last.ret = "OK"
    /\ (last.op = "CURRENT" /\ prev.op = "goto" /\ prev.blk = 12) =>
          /\ prev.ret = "OK"
          /\ last.ret = "OK"
          /\ last.ext.e_lblk = 4
          /\ last.ext.e_len = 12
          /\ "LEAF" \in last.ext.e_flags

\* goto(12) in the two-level tree, then CURRENT
C5_Goto12Seen ==
  /\ IsTwo
  /\ last.op = "CURRENT"
  /\ prev.op = "goto"
  /\ prev.blk = 12

\* C5 as stated: goto(12) returns EXTENT_NOT_FOUND and the following
\* get(CURRENT) returns the leaf with e_lblk = 4 and e_len = 12.
C5_Goto12NotFound ==
  IsTwo =>
    /\ (last.op = "goto" /\ last.blk = 12) => last.ret = "EXTENT_NOT_FOUND"
    /\ (last.op = "CURRENT" /\ prev.op = "goto" /\ prev.blk = 12) =>
          /\ prev.ret = "EXTENT_NOT_FOUND"
          /\ last.ext.e_lblk = 4
          /\ last.ext.e_len = 12

(***************************************************************************)
(* Mutation.                                                               *)
(***************************************************************************)
\* C6: after a successful replace of E at a leaf-level cursor the next
\* get(CURRENT) returns E's e_lblk, e_pblk and e_len with LEAF set, and
\* UNINIT set exactly when E carried UNINIT.
C6_ReplaceRoundTrip ==
  (last.op = "CURRENT" /\ prev.op = "replace" /\ prev.ret = "OK"
   /\ h.level = h.max_depth) =>
    /\ last.ret = "OK"
    /\ last.ext.e_lblk = prev.in.e_lblk
    /\ last.ext.e_pblk = prev.in.e_pblk
    /\ last.ext.e_len = prev.in.e_len
    /\ "LEAF" \in last.ext.e_flags
    /\ ("UNINIT" \in last.ext.e_flags) = ("UNINIT" \in prev.in.e_flags)

\* C7: after any operation every frame on the path 0..level has
\* 0 <= entries <= max_entries, and the eh_entries of its buffer's header
\* equals its entries counter.
C7_FramesSound ==
  h.st = "open" =>
    \A l \in 0..h.level :
      /\ 0 <= PathOf(h, l).entries
      /\ PathOf(h, l).entries <= PathOf(h, l).max_entries
      /\ FrameBuf(h, l).eh_entries = PathOf(h, l).entries

\* C8: on a writable filesystem an insert on a frame whose entries equals
\* max_entries returns CANT_INSERT_EXTENT, leaves the handle (level, frames,
\* buffers, inode copy) and the disk as they were, and issues no write.
C8_FullInsertRefused ==
  [][(last'.op = "insert" /\ nmut' = nmut + 1 /\ fs.rw
      /\ PathOf(h, h.level).entries = PathOf(h, h.level).max_entries) =>
       /\ last'.ret = "CANT_INSERT_EXTENT"
       /\ h' = h
       /\ inodes' = inodes
       /\ blocks' = blocks
       /\ wlog' = <<>>]_vars

\* an insert was refused on the full leaf block of a two-level tree
C8_Refused ==
  /\ fs.rw
  /\ last.op = "insert"
  /\ last.ret = "CANT_INSERT_EXTENT"
  /\ h.level = 1
  /\ PathOf(h, 1).entries = PathOf(h, 1).max_entries

\* the record replace stores for extent e at the handle's level
Encoded(e) ==
  IF h.level = h.max_depth THEN EncodeLeaf(e) ELSE EncodeIndex(e)

\* C9, as the code has it: insert(INSERT_AFTER, E) on the last record of a
\* non-full frame immediately followed by delete leaves every header field
\* but the entry count and every record slot but one as they were before the
\* insert; the entry count is rewritten from the frame's count, which is the
\* count the frame had before the insert; the slot E was written into (the
\* one after the last record) still holds E.
C9_InsertDeleteKeepsSlot ==
  snap.st = "deleted" =>
    LET now == FrameBuf(h, h.level)
        n == PathOf(h, h.level).entries
    IN /\ [now EXCEPT !.recs = <<>>, !.eh_entries = 0]
            = [snap.buf EXCEPT !.recs = <<>>, !.eh_entries = 0]
       /\ now.eh_entries = n
       /\ Len(now.recs) = Len(snap.buf.recs)
       /\ n + 1 <= Len(now.recs)
       /\ \A i \in 1..Len(now.recs) :
            i # n + 1 => now.recs[i] = snap.buf.recs[i]
       /\ now.recs[n + 1] = Encoded(prev.in)

\* insert after the last record of a leaf block, then delete, both succeed
C9_InsertedDeleted ==
  /\ snap.st = "deleted"
  /\ last.op = "delete"
  /\ last.ret = "OK"
  /\ prev.op = "insert"
  /\ h.level = 1

\* C9 as stated: the whole buffer, the slot E was written into included, is
\* byte-identical to its contents before the insert.
C9_BufferIdentical ==
  snap.st = "deleted" => FrameBuf(h, h.level) = snap.buf

\* C10: on a filesystem that is not writable, replace, insert and delete
\* return RO_FILSYS from every cursor state, change nothing of the handle or
\* the disk, and issue no write.
C10_ReadOnlyRefused ==
  [][(nmut' = nmut + 1 /\ ~fs.rw) =>
       /\ last'.op \in {"replace", "insert", "delete"}
       /\ last'.ret = "RO_FILSYS"
       /\ h' = h
       /\ inodes' = inodes
       /\ blocks' = blocks
       /\ wlog' = <<>>]_vars

\* an insert and then a delete were refused on a read-only filesystem
C10_Refused ==
  /\ ~fs.rw
  /\ prev.op = "insert"
  /\ prev.ret = "RO_FILSYS"
  /\ last.op = "delete"
  /\ last.ret = "RO_FILSYS"
  /\ h.level = 1

\* C11: whenever a write-back performed by replace, insert or delete fails,
\* the operation returns the error of the write; replace never returns
\* success when its write-back failed.
C11_WriteErrorReturned ==
  (last.op \in {"replace", "insert", "delete"} /\ last.fault)
    => last.ret = "EIO"

\* C12: whenever open returns an error, every allocation the call made (the
\* handle, the inode copy) has been released before it returns.
C12_OpenErrorReleases ==
  (last.op = "open" /\ last.ret \notin {"OK", "CRASH"}) => heap = {}

\* C13: after free(handle) the node buffer of every level 1..max_depth, the
\* inode copy, the frame array and the handle have all been released.
C13_FreeReleasesAll ==
  last.op = "free" => heap = {}

\* level and the curr, left and visit_num of every frame
Cursor(hd) ==
  [level |-> hd.level,
   frames |-> [i \in 1..Len(hd.path) |->
                 [curr |-> hd.path[i].curr, left |-> hd.path[i].left,
                  visit_num |-> hd.path[i].visit_num]]]

\* at level 0 nothing is left to the right and no descent is pending
NoNext(hd) ==
  /\ hd.level = 0
  /\ PathOf(hd, 0).left <= 0
  /\ (hd.max_depth = 0 \/ PathOf(hd, 0).visit_num # 0)

\* at level 0 nothing is left to the left and no descent is pending
NoPrev(hd) ==
  /\ hd.level = 0
  /\ PathOf(hd, 0).left >= PathOf(hd, 0).entries - 1
  /\ (hd.max_depth = 0 \/ PathOf(hd, 0).visit_num = 0)

\* C14: with the cursor at level 0 and no move left in the direction,
\* get(NEXT) returns EXTENT_NO_NEXT and get(PREV) returns EXTENT_NO_PREV, and
\* the level and every frame's curr, left and visit_num stay as they were.
C14_EdgeKeepsCursor ==
  [][/\ (last'.op = "NEXT" /\ h.st = "open" /\ NoNext(h)) =>
          (last'.ret = "EXTENT_NO_NEXT" /\ Cursor(h') = Cursor(h))
     /\ (last'.op = "PREV" /\ h.st = "open" /\ NoPrev(h)) =>
          (last'.ret = "EXTENT_NO_PREV" /\ Cursor(h') = Cursor(h))]_vars

\* on a root holding one leaf record, get(ROOT) and then get(NEXT): the
\* NEXT returned EXTENT_NO_NEXT and the cursor is still on the record
C14_OneExtentNoNext ==
  /\ prev.op = "none"
  /\ last.op = "NEXT"
  /\ last.ret = "EXTENT_NO_NEXT"
  /\ h.max_depth = 0
  /\ PathOf(h, 0).entries = 1
  /\ PathOf(h, 0).curr = 0

\* the gets that may begin with a descent
Descents == {"DOWN", "DOWN_AND_LAST", "NEXT", "NEXT_LEAF", "PREV", "PREV_LEAF"}

\* the first step of get(op) on hd is a descent
DescendsFirst(hd, op) ==
  op \in Descents /\ SelectOp(hd, op).op \in {"DOWN", "DOWN_AND_LAST"}

\* C15: when the block read of the child fails in a get whose first step is
\* the descent, the call returns the I/O error and the level and every
\* frame's curr, left and visit_num stay as they were before the call.
C15_FailedDescentKeepsCursor ==
  [][(h.st = "open" /\ DescendsFirst(h, last'.op) /\ last'.fault) =>
       (last'.ret = "EIO" /\ Cursor(h') = Cursor(h))]_vars

\* C16: a successful get that ends at level = max_depth on a record returns
\* LEAF, e_lblk = ee_block, e_pblk = (ee_start_hi << 32) | ee_start and, for
\* ee_len <= 32768, e_len = ee_len without UNINIT, for ee_len > 32768,
\* e_len = ee_len - 32768 with UNINIT; one that ends at level < max_depth
\* sets neither LEAF nor UNINIT.
C16_LeafDecoding ==
  (last.op \in Ops /\ last.ret = "OK" /\ h.st = "open") =>
    LET l == h.level
        e == last.ext
        ex == RdSlot(FrameBuf(h, l), PathOf(h, l).curr)
    IN IF l = h.max_depth
       THEN /\ "LEAF" \in e.e_flags
            /\ e.e_lblk = ex.ee_block
            /\ e.e_pblk = PBlk(ex.ee_start_hi, ex.ee_start)
            /\ ex.ee_len \in 0..65535
            /\ IF ex.ee_len <= EXT_INIT_MAX_LEN
               THEN e.e_len = ex.ee_len /\ "UNINIT" \notin e.e_flags
               ELSE /\ e.e_len = ex.ee_len - EXT_INIT_MAX_LEN
                    /\ "UNINIT" \in e.e_flags
       ELSE "LEAF" \notin e.e_flags /\ "UNINIT" \notin e.e_flags

\* get(CURRENT) on a leaf record of on-disk length 32773 returned length 5
\* with UNINIT and LEAF
C16_UninitFive ==
  /\ last.op = "CURRENT"
  /\ last.ret = "OK"
  /\ h.level = h.max_depth
  /\ RdSlot(FrameBuf(h, h.level), PathOf(h, h.level).curr).ee_len = 32773
  /\ last.ext.e_len = 5
  /\ {"UNINIT", "LEAF"} \subseteq last.ext.e_flags

\* the block the parent frame's current index record addresses
ParentTarget(hd) ==
  IndexPBlk(RdSlot(FrameBuf(hd, hd.level - 1), PathOf(hd, hd.level - 1).curr))

\* C17: every write-back of replace, insert or delete at level 0 is a write
\* of the handle's inode and no block is written; every write-back at level
\* k > 0 writes frame k's buffer to the block frame k-1's current index
\* record addresses and no inode is written; no other block is written.
C17_WriteBackTarget ==
  [][(nmut' = nmut + 1) =>
       IF h.level = 0
       THEN /\ \A i \in 1..Len(wlog') : wlog'[i] = WInode(h.ino)
            /\ blocks' = blocks
            /\ \A i \in DOMAIN inodes :
                 i # h.ino => inodes'[i] = inodes[i]
            /\ (wlog' # <<>> /\ ~last'.fault) => inodes'[h.ino] = h'.inode
       ELSE /\ \A i \in 1..Len(wlog') : wlog'[i] = WBlock(ParentTarget(h))
            /\ inodes' = inodes
            /\ \A b \in DOMAIN blocks :
                 b # ParentTarget(h) => blocks'[b] = blocks[b]
            /\ (wlog' # <<>> /\ ~last'.fault
                  /\ ParentTarget(h) \in DOMAIN blocks) =>
                 blocks'[ParentTarget(h)] = FrameBuf(h', h.level)]_vars

\* a mutation at level 1 wrote its leaf block, one at level 0 the inode
C17_BlockWritten ==
  /\ last.op \in {"replace", "insert", "delete"}
  /\ last.ret = "OK"
  /\ h.level = 1
  /\ wlog # <<>>
  /\ wlog[1].kind = "block"
  /\ blocks[wlog[1].blk] = FrameBuf(h, 1)

\* C18: in every reachable state every frame on the path 0..level has
\* left + index(curr) + 1 = entries when curr is set, and left = entries
\* when curr is none (the frame as open or a reset leaves it).
C18_CursorCounts ==
  h.st = "open" =>
    \A l \in 0..h.level :
      IF PathOf(h, l).curr # NULLP
      THEN PathOf(h, l).left + PathOf(h, l).curr + 1 = PathOf(h, l).entries
      ELSE PathOf(h, l).left = PathOf(h, l).entries

\* The steps of a get as its outcome shows them: from hd to hd2 the call
\* went down to the first or to the last record of the child, to the next
\* or the previous record of the frame, or up one level.
WentDown(hd, hd2, tolast) ==
  /\ hd2.level = hd.level + 1
  /\ LET child == PathOf(hd2, hd2.level)
     IN IF tolast
        THEN child.curr = child.entries - 1 /\ child.left = 0
        ELSE child.curr = 0 /\ child.left = child.entries - 1

WentSib(hd, hd2, by) ==
  /\ hd2.level = hd.level
  /\ PathOf(hd2, hd.level).curr =
       (IF PathOf(hd, hd.level).curr = NULLP
        THEN 0 ELSE PathOf(hd, hd.level).curr + by)
  /\ PathOf(hd2, hd.level).left = PathOf(hd, hd.level).left - by

WentUp(hd, hd2) == hd2.level = hd.level - 1

\* an observed get(NEXT) or get(PREV) that made its step, or found none, on
\* an interior node
InteriorStep ==
  /\ last'.op \in {"NEXT", "PREV"}
  /\ last'.ret \in {"OK", "EXTENT_NO_NEXT", "EXTENT_NO_PREV"}
  /\ h.st = "open"
  /\ h.level < h.max_depth

\* the first step of get(NEXT) at an interior node
NextStep ==
  LET path == PathOf(h, h.level)
      seen == PathOf(h', h.level).visit_num
  IN IF path.visit_num = 0
       THEN last'.ret = "OK" /\ WentDown(h, h', FALSE) /\ seen = 1
     ELSE IF path.left > 0
       THEN last'.ret = "OK" /\ WentSib(h, h', 1)
     ELSE IF h.level > 0
       THEN last'.ret = "OK" /\ WentUp(h, h')
     ELSE last'.ret = "EXTENT_NO_NEXT" /\ Cursor(h') = Cursor(h)

\* C19, as the code has it: at an interior node the first step of get(NEXT)
\* is DOWN with visit_num set to 1 when visit_num is 0, else NEXT_SIB when a
\* record is left to the right, else UP when level > 0, else the call fails
\* with EXTENT_NO_NEXT; the first step of get(PREV) is DOWN_AND_LAST, with
\* visit_num left as it is, when visit_num is greater than 0, else PREV_SIB
\* when a record is left to the left, else UP when level > 0, else the call
\* fails with EXTENT_NO_PREV.
C19_FirstStep ==
  [][InteriorStep =>
       IF last'.op = "NEXT" THEN NextStep
       ELSE LET path == PathOf(h, h.level)
                seen == PathOf(h', h.level).visit_num
            IN IF path.visit_num > 0
                 THEN /\ last'.ret = "OK"
                      /\ WentDown(h, h', TRUE)
                      /\ seen = path.visit_num
               ELSE IF path.left < path.entries - 1
                 THEN last'.ret = "OK" /\ WentSib(h, h', 0 - 1)
               ELSE IF h.level > 0
                 THEN last'.ret = "OK" /\ WentUp(h, h')
               ELSE last'.ret = "EXTENT_NO_PREV" /\ Cursor(h') = Cursor(h)]_vars

\* get(PREV) on an index record of the root with visit_num 1 went down to
\* the last record of the child
C19_PrevWentDown ==
  /\ last.op = "PREV"
  /\ last.ret = "OK"
  /\ h.max_depth = 1
  /\ h.level = 1
  /\ PathOf(h, 0).visit_num = 1
  /\ PathOf(h, 1).left = 0
  /\ PathOf(h, 1).curr = PathOf(h, 1).entries - 1

\* C19 as stated: get(PREV) chooses as get(NEXT) does, descending (by
\* DOWN_AND_LAST) with visit_num set to 1 when visit_num is 0.
C19_FirstStepMirrored ==
  [][InteriorStep =>
       IF last'.op = "NEXT" THEN NextStep
       ELSE LET path == PathOf(h, h.level)
                seen == PathOf(h', h.level).visit_num
            IN IF path.visit_num = 0
                 THEN /\ last'.ret = "OK"
                      /\ WentDown(h, h', TRUE)
                      /\ seen = 1
               ELSE IF path.left < path.entries - 1
                 THEN last'.ret = "OK" /\ WentSib(h, h', 0 - 1)
               ELSE IF h.level > 0
                 THEN last'.ret = "OK" /\ WentUp(h, h')
               ELSE last'.ret = "EXTENT_NO_PREV" /\ Cursor(h') = Cursor(h)]_vars

\* the live records of the current frame of hd
LiveRecs(hd) ==
  LET buf == FrameBuf(hd, hd.level)
      n == PathOf(hd, hd.level).entries
  IN [i \in 1..(IF n < Len(buf.recs) THEN n ELSE Len(buf.recs)) |->
        buf.recs[i]]

\* C20: when insert returns the error of a failed write-back, the frame's
\* entries counter, the eh_entries of its header and the sequence of its
\* live records are what they were before the call, with or without
\* INSERT_AFTER and wherever the cursor was.
C20_FailedInsertUndone ==
  [][(last'.op = "insert" /\ nmut' = nmut + 1 /\ last'.ret = "EIO") =>
       /\ PathOf(h', h.level).entries = PathOf(h, h.level).entries
       /\ FrameBuf(h', h.level).eh_entries = FrameBuf(h, h.level).eh_entries
       /\ LiveRecs(h') = LiveRecs(h)]_vars

\* an insert after the first of several records failed at its write-back
C20_InsertFailed ==
  /\ last.op = "insert"
  /\ last.after
  /\ last.ret = "EIO"
  /\ last.fault
  /\ PathOf(h, h.level).entries > 1
  /\ PathOf(h, h.level).left > 0

\* C21: on a well-formed tree a successful get(LAST_LEAF), from whatever
\* cursor, ends at level = max_depth with every frame 0..max_depth on the
\* last record of its node (left = 0): on the last leaf record of the tree.
C21_LastLeafIsLast ==
  (last.op = "LAST_LEAF" /\ last.ret = "OK" /\ WellFormed) =>
    /\ h.level = h.max_depth
    /\ \A l \in 0..h.max_depth :
         /\ PathOf(h, l).left = 0
         /\ PathOf(h, l).curr = PathOf(h, l).entries - 1
    /\ Core(last.ext) = Core(TreeLeaves[Len(TreeLeaves)])

\* C22: the block a descent reads is the block (ei_leaf_hi << 32) | ei_leaf
\* of the index record it goes through, not that address modulo 2^32: after
\* a successful DOWN or DOWN_AND_LAST the child frame holds the contents of
\* the block the parent's current index record addresses.
C22_DownReadsAddressed ==
  (last.op \in {"DOWN", "DOWN_AND_LAST"} /\ last.ret = "OK" /\ ~fs.image
   /\ h.st = "open") =>
    LET ix == RdSlot(FrameBuf(h, h.level - 1), PathOf(h, h.level - 1).curr)
    IN /\ IndexPBlk(ix) \in DOMAIN blocks
       /\ FrameBuf(h, h.level) = blocks[IndexPBlk(ix)]

\* the slot the insert of extent e at the level of hd stores
InsertedSlot(hd, e) ==
  IF hd.level = hd.max_depth THEN EncodeLeaf(e) ELSE EncodeIndex(e)

\* the cursor of the current frame of hd is on one of its live records
OnRecord(hd) ==
  LET path == PathOf(hd, hd.level)
  IN path.curr # NULLP /\ 0 <= path.curr /\ path.curr < path.entries

\* C23: a successful insert of E into a non-full frame whose cursor is on
\* record i of the live records r0..r(n-1) leaves r0..r(i-1), E, ri..r(n-1)
\* in slots 0..n without INSERT_AFTER and r0..ri, E, r(i+1)..r(n-1) with it,
\* sets the frame's entries and the header's eh_entries to n + 1, leaves
\* every slot beyond index n and the rest of the header as they were, and
\* leaves the cursor on E.
C23_InsertPlacesRecord ==
  [][(last'.op = "insert" /\ nmut' = nmut + 1 /\ last'.ret = "OK"
      /\ OnRecord(h)) =>
       LET l == h.level
           n == PathOf(h, l).entries
           at == IF last'.after THEN PathOf(h, l).curr + 1
                                ELSE PathOf(h, l).curr
           old == FrameBuf(h, l)
           now == FrameBuf(h', l)
       IN /\ h'.level = l
          /\ PathOf(h', l).entries = n + 1
          /\ now.eh_entries = n + 1
          /\ PathOf(h', l).curr = at
          /\ [now EXCEPT !.recs = <<>>, !.eh_entries = 0]
               = [old EXCEPT !.recs = <<>>, !.eh_entries = 0]
          /\ Len(now.recs) = Len(old.recs)
          /\ n + 1 <= Len(now.recs)
          /\ \A k \in 1..Len(now.recs) :
               now.recs[k] = IF k < at + 1 THEN old.recs[k]
                             ELSE IF k = at + 1 THEN InsertedSlot(h, last'.in)
                             ELSE IF k <= n + 1 THEN old.recs[k - 1]
                             ELSE old.recs[k]]_vars

\* C24: in a well-formed tree with interior nodes, get(NEXT_LEAF) repeated
\* from a leaf record that a successful goto or an explicit get(DOWN)
\* reached returns leaf records of strictly increasing e_lblk, each beyond
\* the record the cursor was on, and fails only with EXTENT_NO_NEXT: no record
\* is returned twice.
C24_OnwardIncreasing ==
  WellFormed =>
    /\ walk.mode # "on_err"
    /\ walk.mode = "on" => walk.seq[1].e_lblk < walk.seq[2].e_lblk

\* C25: whenever get returns success the record it decoded is a live record
\* of the current frame: the cursor's index i satisfies 0 <= i < entries.
\* LAST_SIB, LAST_LEAF and DOWN on a node without entries do not succeed.
C25_ReturnedRecordLive ==
  (last.op \in Ops /\ last.ret = "OK" /\ h.st = "open") =>
    OnRecord(h)

\* C26: when get(DOWN) or get(DOWN_AND_LAST) returns EXTENT_HEADER_BAD, the
\* header of the child just loaded (or, on an image file, zero-filled) having
\* failed its verification, the handle's level is what it was before the
\* call.
C26_BadChildKeepsLevel ==
  [][(h.st = "open" /\ last'.op \in {"DOWN", "DOWN_AND_LAST"}
      /\ last'.ret = "EXTENT_HEADER_BAD") =>
       h'.level = h.level]_vars

=============================================================================
